---- MODULE Spec2Model ----
(***************************************************************************)
(* A model of the backup system: the artifact directory (BackupManager),   *)
(* the storage fan-out (StorageHandler, GoogleDriveHandler), the pipeline  *)
(* (BackupOrchestrator.run_backup / _backup_single_database), its triggers *)
(* (BackupScheduler, WebInterface) and the notification dispatcher.        *)
(*                                                                         *)
(* File names are sequences of tokens, so that str.startswith,            *)
(* str.endswith and str.replace are computed on them as the code computes  *)
(* them on strings.  Time is counted in ticks; a day is DayTicks ticks.    *)
(***************************************************************************)
EXTENDS Integers, Sequences, FiniteSets, TLC

\* ------------------------------------------------------------------ bounds

\* the clock stops advancing at MaxClock
MaxClock == 1
\* ticks in one day (timedelta(days=...))
DayTicks == 1
\* the largest retention_days a configuration is drawn with
MaxRetention == 1
\* the largest max_backups a configuration is drawn with
MaxBackups == 2
\* the triggers (ticks, run-now, API runs) a behaviour of Spec admits
MaxRuns == 2
\* the DELETE requests a behaviour of SpecJob admits
MaxDeletes == 1

Range(seq) == {seq[k] : k \in 1..Len(seq)}

\* the hours in one day of the scheduler's clock
DayHours == 2
\* the scheduler's clock stops advancing at MaxHour
MaxHour == 3
\* the scheduler requests (start, stop, configure, status) a behaviour admits
MaxRequests == 3

\* ------------------------------------------------------------ the inputs

\* two database names, the first a prefix of the second
DbA == <<"shop">>
DbB == <<"shop", "2">>
Databases == {DbA, DbB}

\* the threads of the process: the scheduler's timing loop and a request handler
Threads == {"loop", "req"}

\* the storage targets of StorageHandler.upload_backup, in the order it tries them
StorageTargets == <<"local", "ftp", "sftp">>

\* datetime.strftime("%Y%m%d_%H%M%S") of a clock value
StampText == <<"19700101_000000", "19700101_000001", "19700101_000002",
               "19700101_000003", "19700101_000004", "19700101_000005">>

strftime(now) == StampText[now + 1]

\* ------------------------------------------------- strings as token sequences

startswith(s, prefix) ==
    /\ Len(prefix) <= Len(s)
    /\ SubSeq(s, 1, Len(prefix)) = prefix

endswith(s, suffix) ==
    /\ Len(suffix) <= Len(s)
    /\ SubSeq(s, Len(s) - Len(suffix) + 1, Len(s)) = suffix

\* str.replace(tok, ''): every occurrence of the token is dropped
replace(s, tok) == SelectSeq(s, LAMBDA x : x # tok)

\* ------------------------------------------------------- the file system

\* a file: its name, its st_ctime and what it holds:
\*   "empty" (zero bytes), "sql" (dump text), "gz" (a complete gzip stream),
\*   "gzcut" (a gzip stream cut short after some of its data: its first
\*   bytes read back, its end-of-stream marker does not), "gzbad" (a gzip
\*   stream cut short before any data)
Kinds == {"empty", "sql", "gz", "gzcut", "gzbad"}

exists(files, name) == \E f \in files : f.name = name

FileOf(files, name) == CHOOSE f \in files : f.name = name

\* open(name, 'w') ... close: the file is created or truncated and rewritten
WriteFile(files, name, now, kind) ==
    {f \in files : f.name # name} \cup {[name |-> name, ctime |-> now, kind |-> kind]}

\* os.remove of an existing file
RemoveFile(files, name) == {f \in files : f.name # name}

getsize(files, name) == IF FileOf(files, name).kind = "empty" THEN 0 ELSE 1

\* ---------------------------------------------------------- BackupManager

generate_backup_filename(database, now, compression) ==
    database \o <<"_", "full", "_", strftime(now), ".sql">>
             \o (IF compression THEN <<".gz">> ELSE <<>>)

\* the path the dump is written to (backup_orchestrator.py line 90)
TempSqlFile(backup_path) ==
    IF endswith(backup_path, <<".gz">>) THEN replace(backup_path, ".gz") ELSE backup_path

\* the files list_backups reports: the suffix test and the database filter
IsBackupName(name) == endswith(name, <<".sql">>) \/ endswith(name, <<".sql", ".gz">>)

\* a mutant of Listed: only the compressed files are taken
ListedCompressedOnly(files, database) ==
    {f \in files : /\ endswith(f.name, <<".sql", ".gz">>)
                   /\ ~(database # <<>> /\ ~startswith(f.name, database))}

Listed(files, database) ==
    {f \in files : /\ IsBackupName(f.name)
                   /\ ~(database # <<>> /\ ~startswith(f.name, database))}

\* sorted(..., key=created, reverse=True): every order of S by ctime descending
\* (files of equal ctime keep the order os.listdir gave them, which is arbitrary)
RECURSIVE SortedOrders(_)
SortedOrders(S) ==
    IF S = {} THEN {<<>>}
    ELSE LET newest == {f \in S : \A g \in S : g.ctime <= f.ctime}
         IN  UNION {{<<f>> \o rest : rest \in SortedOrders(S \ {f})} : f \in newest}

list_backups(files, database) == SortedOrders(Listed(files, database))

\* the file is a gzip stream of which f.read(1) gives a byte (line 196): the
\* header and the first of the data are there
ReadsOneByte(f) == f.kind \in {"gz", "gzcut"}

\* verify_backup: exists, not empty, and for a .gz name one byte reads back;
\* any I/O error is caught and reported as failure
verify_backup(files, name, ioError) ==
    /\ exists(files, name)
    /\ getsize(files, name) # 0
    /\ (endswith(name, <<".gz">>) => ReadsOneByte(FileOf(files, name)))
    /\ ~ioError

\* a mutant of IsOld: the cutoff is a tick too early
IsOldOffByOne(f, now, retention_days) == f.ctime < now - retention_days * DayTicks - 1

\* the age rule's test (backup_manager.py lines 144, 147)
IsOld(f, now, retention_days) == f.ctime < now - retention_days * DayTicks

\* the deletions cleanup_old_backups attempts on `backups`, in order: the age
\* rule's, then the count rule's (which skips what no longer exists)
AgeVictims(backups, now, retention_days) ==
    SelectSeq(backups, LAMBDA f : IsOld(f, now, retention_days))

\* a mutant of ExcessBackups: one call evicts one excess artifact only
ExcessBackupsOnlyOne(backups, max_backups) ==
    IF Len(backups) > max_backups
    THEN SubSeq(backups, max_backups + 1, max_backups + 1)
    ELSE <<>>

ExcessBackups(backups, max_backups) ==
    IF Len(backups) > max_backups
    THEN SubSeq(backups, max_backups + 1, Len(backups))
    ELSE <<>>

\* a mutant of ExcessVictims: the count rule does not test os.path.exists
ExcessVictimsCountedTwice(backups, now, retention_days, max_backups) ==
    ExcessBackups(backups, max_backups)

ExcessVictims(backups, now, retention_days, max_backups) ==
    SelectSeq(ExcessBackups(backups, max_backups),
              LAMBDA f : ~IsOld(f, now, retention_days))

DeleteAttempts(backups, now, retention_days, max_backups) ==
    AgeVictims(backups, now, retention_days)
        \o ExcessVictims(backups, now, retention_days, max_backups)

\* cleanup_old_backups on the listing `backups`; failAt = 0: every os.remove
\* succeeds; failAt = k: the k-th os.remove raises, which ends the cleanup.
\* The result: the files left, the count returned and the names removed.
cleanup_old_backups(files, backups, now, retention_days, max_backups, failAt) ==
    LET attempts == DeleteAttempts(backups, now, retention_days, max_backups)
        done     == IF failAt = 0 THEN Len(attempts) ELSE failAt - 1
        gone     == {attempts[k].name : k \in 1..done}
    IN  [files     |-> {f \in files : f.name \notin gone},
         removed   |-> done,
         gone      |-> gone,
         attempted |-> {attempts[k].name : k \in 1..(IF failAt = 0 THEN done ELSE failAt)},
         selected  |-> {attempts[k].name : k \in 1..Len(attempts)},
         aborted   |-> failAt # 0]


\* ------------------------------------------------- NotificationService

Channels == {"email", "telegram"}

\* _format_failure_message: the error text is written when it is not empty,
\* the details (key: value lines) when there are any
format_failure_message(database, error_message, details) ==
    [kind     |-> "failed",
     database |-> database,
     error    |-> IF error_message # "" THEN <<error_message>> ELSE <<>>,
     details  |-> details]

\* _format_success_message: file name, size when the file exists, duration and
\* the storage locations of the details
format_success_message(files, database, backup_file, details) ==
    [kind     |-> "success",
     database |-> database,
     file     |-> backup_file,
     size     |-> IF exists(files, backup_file)
                  THEN <<getsize(files, backup_file)>> ELSE <<>>,
     details  |-> [duration |-> details.duration, storage |-> details.storage]]

\* the channels send_backup_notification tries for an outcome
NotifyChannels(notify, success) ==
    {c \in Channels :
        /\ notify[c].enabled
        /\ \/ success /\ notify[c].notify_on_success
           \/ ~success /\ notify[c].notify_on_failure}

\* a mutant of send_backup_notification: a channel that fails ends the
\* dispatch, so telegram is not tried after a failed email
send_backup_notification_stops(notify, files, success, database, backup_file, error_message, details, delivered) ==
    [invoked   |-> TRUE,
     success   |-> success,
     message   |-> IF success
                   THEN format_success_message(files, database, backup_file, details)
                   ELSE format_failure_message(database, error_message, details),
     attempted |-> IF "email" \in NotifyChannels(notify, success) \ delivered
                   THEN {"email"} ELSE NotifyChannels(notify, success),
     delivered |-> delivered \cap NotifyChannels(notify, success)]

\* send_backup_notification: the message is built, then every enabled channel
\* whose condition holds is tried; `delivered` are the channels that succeed
send_backup_notification(notify, files, success, database, backup_file, error_message, details, delivered) ==
    [invoked   |-> TRUE,
     success   |-> success,
     message   |-> IF success
                   THEN format_success_message(files, database, backup_file, details)
                   ELSE format_failure_message(database, error_message, details),
     attempted |-> NotifyChannels(notify, success),
     delivered |-> delivered \cap NotifyChannels(notify, success)]

NoNote == [invoked |-> FALSE]

\* --------------------------------------------------------- configuration

\* backup.retention_days, backup.max_backups, backup.compression,
\* storage.<target>.enabled, google_drive.enabled, notifications.*,
\* database.databases
NotifyAll ==
    [c \in Channels |-> [enabled |-> TRUE, notify_on_success |-> TRUE,
                         notify_on_failure |-> TRUE]]
NotifyNone ==
    [c \in Channels |-> [enabled |-> FALSE, notify_on_success |-> TRUE,
                         notify_on_failure |-> TRUE]]
NotifyEmailQuietOnFailure ==
    [c \in Channels |-> [enabled |-> c = "email", notify_on_success |-> TRUE,
                         notify_on_failure |-> FALSE]]
NotifyConfigs == {NotifyAll, NotifyNone, NotifyEmailQuietOnFailure}

StorageConfigs == {{}, {"ftp"}, {"local", "ftp", "sftp"}}

DatabaseLists == {<<DbA>>, <<DbA, DbB>>}

BaseConfig ==
    [compression |-> TRUE, retention_days |-> 1, max_backups |-> MaxBackups,
     storage |-> {"local", "ftp", "sftp"}, gdrive |-> TRUE, notify |-> NotifyAll,
     databases |-> <<DbA, DbB>>]


Configs ==
    [compression    : BOOLEAN,
     retention_days : 0..MaxRetention,
     max_backups    : 0..MaxBackups,
     storage        : StorageConfigs,
     gdrive         : BOOLEAN,
     notify         : NotifyConfigs,
     databases      : DatabaseLists]

\* -------------------------------------------------------- BackupScheduler

\* the scheduler objects of the process: the orchestrator's (line 48 of
\* backup_orchestrator.py) and the web interface's (line 1624 of web_interface.py)
Instances == {"orch", "web"}

\* a dict without keys, dict.get(key, default) and dict.update(other)
EmptyDict == [k \in {} |-> TRUE]

get(d, key, default) == IF key \in DOMAIN d THEN d[key] ELSE default

update(d, other) ==
    [k \in DOMAIN d \cup DOMAIN other |-> IF k \in DOMAIN other THEN other[k] ELSE d[k]]

\* the decimal texts int() accepts here, each at the index that is its value
NumberText == <<"1", "2">>

IsInt(s) == Len(s) = 1 /\ s[1] \in Range(NumberText)

int(s) == CHOOSE k \in 1..Len(NumberText) : NumberText[k] = s[1]

\* the days of a week; day 0 of the scheduler's clock is a Sunday
WeekDays == 7

\* backup_time defaults to '02:00', the second hour of the day
DefaultBackupTime == 1

TimeOfDay(now) == now % DayHours

DayOf(now) == now \div DayHours

Weekday(now) == DayOf(now) % WeekDays

\* a mutant of NextAt: the hour that has just struck counts as still to come
NextAtInclusive(now, at) ==
    IF at >= TimeOfDay(now)
    THEN DayOf(now) * DayHours + at
    ELSE (DayOf(now) + 1) * DayHours + at

\* schedule's every().day.at(t): the first time after `now` that is t o'clock
NextAt(now, at) ==
    IF at > TimeOfDay(now)
    THEN DayOf(now) * DayHours + at
    ELSE (DayOf(now) + 1) * DayHours + at

\* schedule's every().sunday.at(t): the first Sunday t o'clock after `now`
NextSundayAt(now, at) ==
    IF Weekday(now) = 0 /\ at > TimeOfDay(now)
    THEN DayOf(now) * DayHours + at
    ELSE (DayOf(now) + WeekDays - Weekday(now)) * DayHours + at

\* schedule's Job._schedule_next_run, as do() and run() call it
schedule_next_run(j, now) ==
    CASE j.unit = "hours" -> now + j.interval
      [] j.unit = "days"  -> NextAt(now, j.at)
      [] OTHER            -> NextSundayAt(now, j.at)

\* BackupScheduler.__init__: lines 11-18
BackupScheduler(config) ==
    [enabled     |-> get(config, "enabled", TRUE),
     backup_time |-> get(config, "backup_time", DefaultBackupTime),
     interval    |-> get(config, "backup_interval", <<"daily">>),
     running     |-> FALSE,
     started     |-> -1,
     logged      |-> "none"]

\* a job of the schedule module, its first run computed
NewJob(owner, id, unit, interval, at, now) ==
    LET j == [owner |-> owner, id |-> id, unit |-> unit, interval |-> interval, at |-> at]
    IN  [owner |-> owner, id |-> id, unit |-> unit, interval |-> interval, at |-> at,
         last_run |-> -1, next_run |-> schedule_next_run(j, now)]

\* schedule_backups, lines 21-49: the jobs of the schedule module after it
\* and what it logged
schedule_backups(s, owner, id, now) ==
    IF ~s.enabled
    THEN [jobs |-> {}, logged |-> "Scheduler is disabled"]
    ELSE IF s.interval = <<"daily">>
    THEN [jobs |-> {NewJob(owner, id, "days", 1, s.backup_time, now)},
          logged |-> "Scheduled daily backup"]
    ELSE IF s.interval = <<"hourly">>
    THEN [jobs |-> {NewJob(owner, id, "hours", 1, -1, now)},
          logged |-> "Scheduled hourly backups"]
    ELSE IF endswith(s.interval, <<"hours">>)
    THEN IF IsInt(replace(s.interval, "hours"))
         THEN [jobs |-> {NewJob(owner, id, "hours", int(replace(s.interval, "hours")),
                                -1, now)},
               logged |-> "Scheduled backup every N hours"]
         ELSE [jobs |-> {}, logged |-> "Invalid interval format"]
    ELSE IF s.interval = <<"weekly">>
    THEN [jobs |-> {NewJob(owner, id, "weeks", 1, s.backup_time, now)},
          logged |-> "Scheduled weekly backup"]
    ELSE [jobs |-> {}, logged |-> "Unknown interval"]

\* start, lines 59-70, on the state S of the schedulers
start(S, i) ==
    IF S.scheduler[i].running
    THEN S
    ELSE LET r == schedule_backups(S.scheduler[i], i, S.serial, S.now)
         IN  [S EXCEPT !.jobs = r.jobs,
                       !.serial = @ + 1,
                       !.scheduler[i].logged = r.logged,
                       !.scheduler[i].running = TRUE,
                       !.scheduler[i].started = S.now,
                       !.loops[i] = @ + 1]

\* stop, lines 77-83: the flag is lowered, the loop is waited for at most
\* five seconds (it may outlive the wait), the schedule module is cleared
stop(S, i) ==
    [S EXCEPT !.scheduler[i].running = FALSE,
              !.jobs = {}]

\* get_next_run, lines 85-91
get_next_run(S) ==
    IF S.jobs = {}
    THEN [scheduled |-> FALSE, text |-> "No jobs scheduled"]
    ELSE [scheduled |-> TRUE,
          time |-> CHOOSE n \in {j.next_run : j \in S.jobs} :
                      \A j \in S.jobs : n <= j.next_run]

\* get_scheduler_status, lines 266-278
get_scheduler_status(S) ==
    [enabled     |-> S.scheduler["orch"].enabled,
     running     |-> S.scheduler["orch"].running,
     interval    |-> S.scheduler["orch"].interval,
     backup_time |-> S.scheduler["orch"].backup_time,
     next_run    |-> IF S.scheduler["orch"].running
                     THEN get_next_run(S)
                     ELSE [scheduled |-> FALSE, text |-> "Not scheduled"]]

\* configure_scheduler, lines 307-328: the stored settings are updated, a
\* running scheduler is stopped, a new one is built and started when the
\* request says enabled; the loops of the old object end at their next wake
configure_scheduler(S, config) ==
    LET merged  == update(S.config, config)
        stopped == IF S.scheduler["orch"].running THEN stop(S, "orch") ELSE S
        rebuilt == [stopped EXCEPT !.config = merged,
                                   !.scheduler["orch"] = BackupScheduler(merged),
                                   !.loops["orch"] = 0]
    IN  IF get(config, "enabled", FALSE) THEN start(rebuilt, "orch") ELSE rebuilt

\* -------------------------------------------------------------- the state

VARIABLES
    fs,        \* the artifact directory: a set of files
    clock,     \* datetime.now() / time.time()
    cfg,       \* the loaded configuration
    pc,        \* per thread: where it stands in run_backup
    run,       \* per thread: the run_backup call it executes
    job,       \* per thread: the _backup_single_database call it executes
    resp,      \* per thread: what the last trigger's caller was answered
    runs,      \* the triggers and DELETE requests the behaviour still admits
    faults,    \* whether the external calls (database, transports, disk) may fail
    cl,        \* the last direct call of cleanup_old_backups and what it did
    sch,       \* the schedulers: their objects, the schedule module's jobs, the loops
    sto        \* the last direct call of restore, verify, checksum or list

vars == <<fs, clock, cfg, pc, run, job, resp, runs, faults, cl, sch, sto>>

\* the outcomes an external call may have
Outcomes(all) == IF faults THEN all ELSE {"ok"}

NoRun == [trigger |-> "none", databases |-> <<>>, i |-> 0, results |-> {},
          jobs |-> 0, busy |-> FALSE]

NoJob == [database |-> <<>>, start |-> 0, backup_path |-> <<>>,
          storage_results |-> {}, removed_count |-> 0, error |-> "",
          success |-> FALSE, note |-> NoNote, stages |-> <<>>,
          verified |-> {}, uploads |-> {}, faulty |-> {}, conns |-> {}, found |-> TRUE,
          listed |-> {}, evicted |-> {}]

NoCall == [called |-> FALSE]

NoResp == [status |-> "none", busy |-> FALSE]

NoTick == [active |-> FALSE, last |-> "none"]

NoRequest == [op |-> "none"]

NoOp == [name |-> "none"]

\* the schedulers as built from the settings `config` at hour `now`, none started
Constructed(config, now) ==
    [now       |-> now,
     config    |-> config,
     scheduler |-> [i \in Instances |-> BackupScheduler(config)],
     jobs      |-> {},
     serial    |-> 0,
     loops     |-> [i \in Instances |-> 0],
     tick      |-> NoTick,
     requests  |-> 0,
     last      |-> NoRequest]

\* the specifications of the pipeline leave the schedulers as built and idle
Unscheduled == Constructed(EmptyDict, 0)

InitThreads ==
    /\ pc = [t \in Threads |-> "idle"]
    /\ run = [t \in Threads |-> NoRun]
    /\ job = [t \in Threads |-> NoJob]
    /\ resp = [t \in Threads |-> NoResp]
    /\ cl = NoCall


\* ------------------------------------------------------------ the triggers

\* run_backup's argument: None (given = FALSE) or a list of databases
BatchInputs ==
    {[given |-> FALSE, list |-> <<>>]}
        \cup {[given |-> TRUE, list |-> l] : l \in {<<>>, <<DbA>>, <<DbB>>, <<DbB, DbA>>}}

\* a mutant of run_backup_enter: an empty list is not returned for at once
run_backup_enter_unchecked(t, kind, arg) ==
    LET databases == IF arg.given THEN arg.list ELSE cfg.databases
    IN  /\ pc[t] = "idle"
        /\ runs.triggers > 0
        /\ runs' = [runs EXCEPT !.triggers = @ - 1]
        /\ run' = [run EXCEPT ![t] =
                      [trigger |-> kind, databases |-> databases, i |-> 1,
                       results |-> {}, jobs |-> 0,
                       busy |-> \E u \in Threads \ {t} : pc[u] # "idle"]]
        /\ pc' = [pc EXCEPT ![t] = "start"]
        /\ resp' = [resp EXCEPT ![t] = NoResp]
        /\ UNCHANGED <<fs, clock, cfg, job, faults, cl, sch, sto>>

\* run_backup lines 60-67: the list is resolved, an empty one returns {} at once
run_backup_enter(t, kind, arg) ==
    LET databases == IF arg.given THEN arg.list ELSE cfg.databases
    IN  /\ pc[t] = "idle"
        /\ runs.triggers > 0
        /\ runs' = [runs EXCEPT !.triggers = @ - 1]
        /\ run' = [run EXCEPT ![t] =
                      [trigger |-> kind, databases |-> databases, i |-> 1,
                       results |-> {}, jobs |-> 0,
                       busy |-> \E u \in Threads \ {t} : pc[u] # "idle"]]
        /\ pc' = [pc EXCEPT ![t] = IF databases = <<>> THEN "return" ELSE "start"]
        /\ resp' = [resp EXCEPT ![t] = NoResp]
        /\ UNCHANGED <<fs, clock, cfg, job, faults, cl, sch, sto>>

\* the timing loop's schedule.run_pending() runs a due job:
\* BackupScheduler._run_backup -> _scheduled_backup -> run_backup(config list)
Tick ==
    run_backup_enter("loop", "tick", [given |-> TRUE, list |-> cfg.databases])

\* POST /api/scheduler/run-now: run_scheduler_now -> run_now -> _run_backup,
\* in the request's thread
RunNow ==
    run_backup_enter("req", "run_now", [given |-> TRUE, list |-> cfg.databases])

\* POST /api/backup/run: run_backup(data.get('databases')), in the request's thread
ApiRun ==
    \E arg \in BatchInputs : run_backup_enter("req", "api", arg)

\* --------------------------------------------- _backup_single_database

\* main.py lines 87-89: --backup calls run_backup(args.databases) in the
\* process's one thread, which takes the request thread's place here
CliBackup ==
    \E arg \in BatchInputs : run_backup_enter("req", "cli", arg)

\* a mutant of Fail: the error is noted and the pipeline goes on
FailGoesOn(t, j, message) ==
    /\ job' = [job EXCEPT ![t] = [j EXCEPT !.error = message]]
    /\ pc' = [pc EXCEPT ![t] = "upload"]

\* a mutant of Fail: the exception is lost and the job is left in a stage
\* that never ends
FailIsLost(t, j, message) ==
    /\ job' = [job EXCEPT ![t] = [j EXCEPT !.error = message]]
    /\ pc' = [pc EXCEPT ![t] = "lost"]

\* raise ... except (lines 85-103, 138): the error text is kept, the job fails
Fail(t, j, message) ==
    /\ job' = [job EXCEPT ![t] = [j EXCEPT !.error = message]]
    /\ pc' = [pc EXCEPT ![t] = "failed"]

\* lines 80-85: start_time, test_connection
ConnOutcomes == {"ok", "fail", "raise"}

BeginJob(t) ==
    /\ pc[t] = "start"
    /\ LET j == [NoJob EXCEPT !.database = run[t].databases[run[t].i],
                              !.start = clock]
       IN  \E c \in Outcomes(ConnOutcomes) :
              IF c = "ok"
              THEN /\ job' = [job EXCEPT ![t] = j]
                   /\ pc' = [pc EXCEPT ![t] = "dump"]
              ELSE Fail(t, j, IF c = "fail" THEN "Database connection failed"
                                            ELSE "connection error")
    /\ run' = [run EXCEPT ![t].jobs = @ + 1]
    /\ UNCHANGED <<fs, clock, cfg, resp, runs, faults, cl, sch, sto>>

\* lines 87-93: the name is generated and the dump written
DumpOutcomes == {"ok", "fail_empty", "fail_partial", "open_error"}

\* create_backup: open(output_file, 'w') creates the file, mysqldump fills it
create_backup(files, output_file, now, outcome) ==
    CASE outcome = "ok"           -> WriteFile(files, output_file, now, "sql")
      [] outcome = "fail_empty"   -> WriteFile(files, output_file, now, "empty")
      [] outcome = "fail_partial" -> WriteFile(files, output_file, now, "sql")
      [] OTHER                    -> files

Dump(t) ==
    /\ pc[t] = "dump"
    /\ LET backup_path == generate_backup_filename(job[t].database, clock, cfg.compression)
           j == [job[t] EXCEPT !.backup_path = backup_path,
                               !.stages = Append(@, "Dumping")]
       IN  \E o \in Outcomes(DumpOutcomes) :
              /\ fs' = create_backup(fs, TempSqlFile(backup_path), clock, o)
              /\ IF o = "ok"
                 THEN /\ job' = [job EXCEPT ![t] = j]
                      /\ pc' = [pc EXCEPT ![t] =
                                   IF cfg.compression THEN "compress" ELSE "verify"]
                 ELSE Fail(t, j, "Failed to create database dump")
    /\ UNCHANGED <<clock, cfg, run, resp, runs, faults, cl, sch, sto>>

\* lines 95-100 with compress_file: the .gz is written, then the source removed
CompressOutcomes == {"ok", "write_error", "remove_error"}

\* a mutant of compress_file: the source is removed before the .gz is written
compress_file_removes_first(files, input_file, now, outcome) ==
    LET output_file == input_file \o <<".gz">>
    IN  IF ~exists(files, input_file) THEN [files |-> files, path |-> <<>>]
        ELSE CASE outcome = "ok" ->
                    [files |-> RemoveFile(WriteFile(files, output_file, now, "gz"),
                                          input_file),
                     path  |-> output_file]
               [] outcome = "write_error" ->
                    [files |-> RemoveFile(WriteFile(files, output_file, now, "gzbad"),
                                          input_file),
                     path  |-> <<>>]
               [] OTHER ->
                    [files |-> files, path |-> <<>>]

compress_file(files, input_file, now, outcome) ==
    LET output_file == input_file \o <<".gz">>
    IN  IF ~exists(files, input_file) THEN [files |-> files, path |-> <<>>]
        ELSE CASE outcome = "ok" ->
                    [files |-> RemoveFile(WriteFile(files, output_file, now, "gz"),
                                          input_file),
                     path  |-> output_file]
               [] outcome = "write_error" ->
                    [files |-> WriteFile(files, output_file, now, "gzbad"),
                     path  |-> <<>>]
               [] OTHER ->
                    [files |-> WriteFile(files, output_file, now, "gz"),
                     path  |-> <<>>]

Compress(t) ==
    /\ pc[t] = "compress"
    /\ \E o \in Outcomes(CompressOutcomes) :
          LET r == compress_file(fs, TempSqlFile(job[t].backup_path), clock, o)
              j == [job[t] EXCEPT !.stages = Append(@, "Compressing")]
          IN  /\ fs' = r.files
              /\ IF r.path # <<>>
                 THEN /\ job' = [job EXCEPT ![t] = [j EXCEPT !.backup_path = r.path]]
                      /\ pc' = [pc EXCEPT ![t] = "verify"]
                 ELSE Fail(t, j, "Compression failed")
    /\ UNCHANGED <<clock, cfg, run, resp, runs, faults, cl, sch, sto>>

\* the stage that follows verification: the first enabled upload, or cleanup
\* a mutant of AfterStorage: the cloud-drive upload is left out and cleaning
\* starts as the storage targets are done
AfterStorageAbandonsDrive == "cleanup"

AfterStorage == IF cfg.gdrive THEN "gdrive" ELSE "cleanup"

AfterTarget(target) ==
    CASE target = "local" -> IF "ftp" \in cfg.storage THEN "ftp"
                             ELSE IF "sftp" \in cfg.storage THEN "sftp"
                             ELSE AfterStorage
      [] target = "ftp"   -> IF "sftp" \in cfg.storage THEN "sftp" ELSE AfterStorage
      [] OTHER            -> AfterStorage

\* a mutant of Verify: a failed verification is not fatal
VerifyNotFatal(t) ==
    /\ pc[t] = "verify"
    /\ \E ioError \in (IF faults THEN BOOLEAN ELSE {FALSE}) :
          LET j == [job[t] EXCEPT !.stages = Append(@, "Verifying")]
          IN  job' = [job EXCEPT ![t] =
                         IF verify_backup(fs, job[t].backup_path, ioError)
                         THEN [j EXCEPT !.verified = @ \cup {job[t].backup_path}]
                         ELSE j]
    /\ pc' = [pc EXCEPT ![t] = "upload"]
    /\ UNCHANGED <<fs, clock, cfg, run, resp, runs, faults, cl, sch, sto>>

\* lines 102-103
Verify(t) ==
    /\ pc[t] = "verify"
    /\ \E ioError \in (IF faults THEN BOOLEAN ELSE {FALSE}) :
          LET j == [job[t] EXCEPT !.stages = Append(@, "Verifying")]
          IN  IF verify_backup(fs, job[t].backup_path, ioError)
              THEN /\ job' = [job EXCEPT ![t] =
                                 [j EXCEPT !.verified = @ \cup {job[t].backup_path}]]
                   /\ pc' = [pc EXCEPT ![t] = "upload"]
              ELSE Fail(t, j, "Backup verification failed")
    /\ UNCHANGED <<fs, clock, cfg, run, resp, runs, faults, cl, sch, sto>>


\* ---------------------------------------------------------- the uploads

Record(results, target, ok) ==
    {r \in results : r[1] # target} \cup {<<target, ok>>}

\* StorageHandler.upload_backup lines 14-21: a missing file ends the fan-out
\* with {'error': False}; otherwise the local target, when enabled, reports True
Upload(t) ==
    /\ pc[t] = "upload"
    /\ LET path == job[t].backup_path
           j == [job[t] EXCEPT !.stages = Append(@, "Uploading")]
       IN  IF ~exists(fs, path)
           THEN /\ job' = [job EXCEPT ![t] =
                              [j EXCEPT !.storage_results = {<<"error", FALSE>>},
                                        !.found = FALSE]]
                /\ pc' = [pc EXCEPT ![t] = AfterStorage]
           ELSE /\ job' = [job EXCEPT ![t] =
                              IF "local" \in cfg.storage
                              THEN [j EXCEPT !.storage_results = Record(@, "local", TRUE),
                                             !.uploads = @ \cup {<<"local", path>>}]
                              ELSE j]
                /\ pc' = [pc EXCEPT ![t] = AfterTarget("local")]
    /\ UNCHANGED <<fs, clock, cfg, run, resp, runs, faults, cl, sch, sto>>

\* _upload_ftp: connect, login, cwd (mkd when missing), storbinary; every
\* error is caught and reported as False
FtpOutcomes == {"ok", "connect", "auth", "mkdir", "transfer"}

\* _upload_sftp: connect (with authentication), put
SftpOutcomes == {"ok", "connect", "transfer"}

\* GoogleDriveHandler.upload_backup, and the orchestrator's own try/except
GdriveOutcomes == {"ok", "fail", "raise"}

\* a mutant of Attempt: a target's error is not caught and fails the job
AttemptFatal(t, target, outcomes, next) ==
    LET path == job[t].backup_path
    IN  \E o \in Outcomes(outcomes) :
           /\ IF o = "ok" /\ exists(fs, path)
              THEN /\ job' = [job EXCEPT ![t] =
                                 [@ EXCEPT !.storage_results = Record(@, target, TRUE),
                                           !.uploads = @ \cup {<<target, path>>}]]
                   /\ pc' = [pc EXCEPT ![t] = next]
              ELSE Fail(t, [job[t] EXCEPT !.uploads = @ \cup {<<target, path>>},
                                          !.faulty = @ \cup {target}],
                        "upload error")
           /\ UNCHANGED <<fs, clock, cfg, run, resp, runs, faults, cl, sch, sto>>

\* _upload_ftp and _upload_sftp call quit() and close() as the last statements
\* of the try block only: a connection that was made (every outcome but a
\* failed connect) is closed when the upload succeeded and left as it is when
\* login, directory, open(local_file) or transfer raised
LeftOpen(target, o, readable) ==
    /\ target \in {"ftp", "sftp"}
    /\ o # "connect"
    /\ ~(o = "ok" /\ readable)

\* one target's attempt: it succeeds when the transport does and the local
\* file can be opened
Attempt(t, target, outcomes, next) ==
    LET path == job[t].backup_path
    IN  \E o \in Outcomes(outcomes) :
           /\ job' = [job EXCEPT ![t] =
                         [@ EXCEPT !.storage_results =
                                       Record(@, target, o = "ok" /\ exists(fs, path)),
                                   !.uploads = @ \cup {<<target, path>>},
                                   !.faulty = @ \cup (IF o = "ok" THEN {} ELSE {target}),
                                   !.conns = @ \cup (IF LeftOpen(target, o, exists(fs, path))
                                                     THEN {target} ELSE {})]]
           /\ pc' = [pc EXCEPT ![t] = next]
           /\ UNCHANGED <<fs, clock, cfg, run, resp, runs, faults, cl, sch, sto>>

\* a mutant of UploadFtp: a failed FTP upload ends the fan-out
UploadFtpShortCircuit(t) ==
    /\ pc[t] = "ftp"
    /\ \E o \in Outcomes(FtpOutcomes) :
          LET ok == o = "ok" /\ exists(fs, job[t].backup_path)
          IN  /\ job' = [job EXCEPT ![t] =
                            [@ EXCEPT !.storage_results = Record(@, "ftp", ok),
                                      !.uploads = @ \cup {<<"ftp", job[t].backup_path>>},
                                      !.faulty = @ \cup (IF o = "ok" THEN {} ELSE {"ftp"})]]
              /\ pc' = [pc EXCEPT ![t] = IF ok THEN AfterTarget("ftp") ELSE AfterStorage]
    /\ UNCHANGED <<fs, clock, cfg, run, resp, runs, faults, cl, sch, sto>>

\* storage_handler.py lines 23-24
UploadFtp(t) ==
    /\ pc[t] = "ftp"
    /\ Attempt(t, "ftp", FtpOutcomes, AfterTarget("ftp"))

UploadSftp(t) ==
    /\ pc[t] = "sftp"
    /\ Attempt(t, "sftp", SftpOutcomes, AfterTarget("sftp"))

\* lines 107-113
UploadGdrive(t) ==
    /\ pc[t] = "gdrive"
    /\ Attempt(t, "google_drive", GdriveOutcomes, "cleanup")

\* --------------------------------------------- cleaning, notifying, results

\* line 115: cleanup_old_backups(database)
Cleanup(t) ==
    /\ pc[t] = "cleanup"
    /\ \E backups \in list_backups(fs, job[t].database) :
          \E failAt \in 0..(IF faults
                              THEN Len(DeleteAttempts(backups, clock,
                                           cfg.retention_days, cfg.max_backups))
                              ELSE 0) :
             LET r == cleanup_old_backups(fs, backups, clock, cfg.retention_days,
                                          cfg.max_backups, failAt)
             IN  /\ fs' = r.files
                 /\ job' = [job EXCEPT ![t] =
                               [@ EXCEPT !.removed_count = r.removed,
                                         !.listed = Range(backups),
                                         !.evicted = {f \in fs : f.name \in r.gone},
                                         !.stages = Append(@, "Cleaning")]]
    /\ pc' = [pc EXCEPT ![t] = "notify"]
    /\ UNCHANGED <<clock, cfg, run, resp, runs, faults, cl, sch, sto>>

\* get_backup_info(...).get('size_mb', 0): {} when the file cannot be stat'ed
SizeMb(files, path) == IF exists(files, path) THEN getsize(files, path) ELSE 0

\* lines 117-136: the success notification, then return True
NotifySuccess(t) ==
    /\ pc[t] = "notify"
    /\ \E delivered \in (IF faults THEN SUBSET Channels ELSE {Channels}) :
          LET details == [duration    |-> clock - job[t].start,
                          storage     |-> job[t].storage_results,
                          size_mb     |-> SizeMb(fs, job[t].backup_path),
                          removed_old |-> job[t].removed_count]
          IN  job' = [job EXCEPT ![t] =
                         [@ EXCEPT !.note = send_backup_notification(
                                                cfg.notify, fs, TRUE, job[t].database,
                                                job[t].backup_path, "", details,
                                                delivered),
                                   !.stages = Append(@, "Notifying"),
                                   !.success = TRUE]]
    /\ pc' = [pc EXCEPT ![t] = "jobdone"]
    /\ UNCHANGED <<fs, clock, cfg, run, resp, runs, faults, cl, sch, sto>>

\* a mutant of NotifyFailure: the failed job returns False without notifying
NotifyFailureSilent(t) ==
    /\ pc[t] = "failed"
    /\ job' = [job EXCEPT ![t] = [@ EXCEPT !.success = FALSE]]
    /\ pc' = [pc EXCEPT ![t] = "jobdone"]
    /\ UNCHANGED <<fs, clock, cfg, run, resp, runs, faults, cl, sch, sto>>

\* lines 138-152: the failure notification, then return False
NotifyFailure(t) ==
    /\ pc[t] = "failed"
    /\ \E delivered \in (IF faults THEN SUBSET Channels ELSE {Channels}) :
          job' = [job EXCEPT ![t] =
                     [@ EXCEPT !.note = send_backup_notification(
                                            cfg.notify, fs, FALSE, job[t].database,
                                            <<>>, job[t].error,
                                            [duration |-> clock - job[t].start],
                                            delivered),
                               !.stages = Append(@, "Notifying"),
                               !.success = FALSE]]
    /\ pc' = [pc EXCEPT ![t] = "jobdone"]
    /\ UNCHANGED <<fs, clock, cfg, run, resp, runs, faults, cl, sch, sto>>

\* a mutant of RecordResult: the loop moves on to the database after the next
RecordResultSkipsOne(t) ==
    /\ pc[t] = "jobdone"
    /\ run' = [run EXCEPT ![t].results =
                              Record(@, job[t].database, job[t].success),
                          ![t].i = @ + 2]
    /\ job' = [job EXCEPT ![t] = NoJob]
    /\ pc' = [pc EXCEPT ![t] =
                 IF run[t].i + 1 < Len(run[t].databases) THEN "start" ELSE "return"]
    /\ UNCHANGED <<fs, clock, cfg, resp, runs, faults, cl, sch, sto>>

\* a mutant of RecordResult: a failed job ends the batch
RecordResultStopsOnFailure(t) ==
    /\ pc[t] = "jobdone"
    /\ run' = [run EXCEPT ![t].results =
                              Record(@, job[t].database, job[t].success),
                          ![t].i = @ + 1]
    /\ job' = [job EXCEPT ![t] = NoJob]
    /\ pc' = [pc EXCEPT ![t] =
                 IF run[t].i < Len(run[t].databases) /\ job[t].success
                 THEN "start" ELSE "return"]
    /\ UNCHANGED <<fs, clock, cfg, resp, runs, faults, cl, sch, sto>>

\* run_backup lines 69-75: the job's result is stored, the loop goes on
RecordResult(t) ==
    /\ pc[t] = "jobdone"
    /\ run' = [run EXCEPT ![t].results =
                              Record(@, job[t].database, job[t].success),
                          ![t].i = @ + 1]
    /\ job' = [job EXCEPT ![t] = NoJob]
    /\ pc' = [pc EXCEPT ![t] =
                 IF run[t].i < Len(run[t].databases) THEN "start" ELSE "return"]
    /\ UNCHANGED <<fs, clock, cfg, resp, runs, faults, cl, sch, sto>>

\* what the trigger's caller is answered once run_backup has returned:
\* the timing loop logs, run_scheduler_now answers "Backup started",
\* /api/backup/run answers the results
\* run_backup lines 71-75: the value stored for a database's result
ResultEntry(r) ==
    [status   |-> IF r[2] THEN "success" ELSE "error",
     success  |-> r[2],
     database |-> r[1]]

\* the truth value Python gives a dict: it is not empty
truthy(v) == DOMAIN v # {}

\* main.py line 96: return 0 if all(results.values()) else 1
ExitCode(results) ==
    IF \A r \in results : truthy(ResultEntry(r)) THEN 0 ELSE 1

Response(r) ==
    CASE r.trigger = "run_now" -> [status |-> "ok", success |-> TRUE,
                                   message |-> "Backup started", busy |-> r.busy]
      [] r.trigger = "api"     -> [status |-> "completed", results |-> r.results,
                                   busy |-> r.busy]
      [] r.trigger = "cli"     -> [status |-> "exit", code |-> ExitCode(r.results),
                                   results |-> r.results, busy |-> r.busy]
      [] OTHER                 -> [status |-> "logged", busy |-> r.busy]

Return(t) ==
    /\ pc[t] = "return"
    /\ resp' = [resp EXCEPT ![t] = Response(run[t])]
    /\ run' = [run EXCEPT ![t] = NoRun]
    /\ pc' = [pc EXCEPT ![t] = "idle"]
    /\ UNCHANGED <<fs, clock, cfg, job, runs, faults, cl, sch, sto>>

\* ------------------------------------------------------- the environment

\* DELETE /api/backup/delete/<filename>
DeleteBackup ==
    /\ runs.deletes > 0
    /\ runs' = [runs EXCEPT !.deletes = @ - 1]
    /\ \E f \in fs : fs' = RemoveFile(fs, f.name)
    /\ UNCHANGED <<clock, cfg, pc, run, job, resp, faults, cl, sch, sto>>

\* time passes: before a job starts and while its stages run, which the
\* job sees when it reads the clock again for the cleanup and the duration
AdvanceClock ==
    /\ clock < MaxClock
    /\ \E t \in Threads : pc[t] \in {"start", "cleanup"}
    /\ clock' = clock + 1
    /\ UNCHANGED <<fs, cfg, pc, run, job, resp, runs, faults, cl, sch, sto>>

\* ------------------------------------------------------ the specifications

Step(t) ==
    \/ BeginJob(t)
    \/ Dump(t)
    \/ Compress(t)
    \/ Verify(t)
    \/ Upload(t)
    \/ UploadFtp(t)
    \/ UploadSftp(t)
    \/ UploadGdrive(t)
    \/ Cleanup(t)
    \/ NotifySuccess(t)
    \/ NotifyFailure(t)
    \/ RecordResult(t)
    \/ Return(t)

\* Spec: the timing loop and a request handler run the pipeline side by side;
\* the external calls succeed
SpecConfigs ==
    {c \in Configs : /\ c.compression
                     /\ c.storage = {"local", "ftp", "sftp"}
                     /\ c.gdrive
                     /\ c.notify = NotifyNone
                     /\ c.databases = <<DbA>>}

Init ==
    /\ fs = {}
    /\ clock = 0
    /\ cfg \in SpecConfigs
    /\ InitThreads
    /\ sch = Unscheduled
    /\ sto = NoOp
    /\ runs = [triggers |-> MaxRuns, deletes |-> 0]
    /\ faults = FALSE

Next ==
    \/ Tick
    \/ RunNow
    \/ ApiRun
    \/ \E t \in Threads : Step(t)
    \/ AdvanceClock

Spec == Init /\ [][Next]_vars

\* SpecJob: one run_backup call of a request handler, under the configurations
\* of JobConfigs, with failing external calls and DELETE requests in between
\* the configurations of SpecJob: the base configuration with the storage
\* targets changed, or the notification settings, or the retention policy
JobConfigs ==
    {c \in Configs :
        /\ c.databases = BaseConfig.databases
        /\ \/ /\ c.notify = BaseConfig.notify
              /\ c.retention_days = BaseConfig.retention_days
              /\ c.max_backups = BaseConfig.max_backups
           \/ /\ c.storage = BaseConfig.storage
              /\ c.gdrive = BaseConfig.gdrive
              /\ c.retention_days = BaseConfig.retention_days
              /\ c.max_backups = BaseConfig.max_backups
           \/ /\ c.storage = BaseConfig.storage
              /\ c.gdrive = BaseConfig.gdrive
              /\ c.notify = BaseConfig.notify}

InitJob ==
    /\ fs = {}
    /\ clock = 0
    /\ cfg \in JobConfigs
    /\ InitThreads
    /\ sch = Unscheduled
    /\ sto = NoOp
    /\ runs = [triggers |-> 1, deletes |-> MaxDeletes]
    /\ faults = TRUE

NextJob ==
    \/ ApiRun
    \/ Step("req")
    \/ DeleteBackup
    \/ AdvanceClock

SpecJob == InitJob /\ [][NextJob]_vars

\* SpecJobFair: one run_backup call under every choice of storage targets,
\* the handler's thread running on: every call it makes returns, so a step of
\* the pipeline that can be taken is taken
InitJobFair ==
    /\ InitJob
    /\ cfg.notify = BaseConfig.notify
    /\ cfg.retention_days = BaseConfig.retention_days
    /\ cfg.max_backups = BaseConfig.max_backups

SpecJobFair == InitJobFair /\ [][NextJob]_vars /\ WF_vars(Step("req"))


\* SpecCli: one run of main.py --backup; the external calls may fail
InitCli ==
    /\ fs = {}
    /\ clock = 0
    /\ cfg \in JobConfigs
    /\ InitThreads
    /\ sch = Unscheduled
    /\ sto = NoOp
    /\ runs = [triggers |-> 1, deletes |-> 0]
    /\ faults = TRUE

NextCli ==
    \/ CliBackup
    \/ Step("req")
    \/ AdvanceClock

SpecCli == InitCli /\ [][NextCli]_vars

\* SpecName: main.py --backup on configurations whose databases include one
\* with the text ".gz" in its name
DbGz == <<"shop", ".gz">>

NameConfigs ==
    {[BaseConfig EXCEPT !.databases = l, !.compression = c] :
        l \in {<<DbA>>, <<DbGz>>, <<DbB, DbGz>>}, c \in BOOLEAN}

InitName ==
    /\ fs = {}
    /\ clock = 0
    /\ cfg \in NameConfigs
    /\ InitThreads
    /\ sch = Unscheduled
    /\ sto = NoOp
    /\ runs = [triggers |-> 1, deletes |-> 0]
    /\ faults = TRUE

SpecName == InitName /\ [][NextCli]_vars

\* SpecCleanup: cleanup_old_backups called on an arbitrary artifact directory,
\* for one database or for all (database = None, here <<>>), with os.remove
\* free to fail
SeedStamps == {0, 1}

SeedNames == {generate_backup_filename(d, ts, TRUE) : d \in Databases, ts \in SeedStamps}

\* a directory: each seed name absent (-1) or present with some st_ctime
SeedDirs ==
    {{[name |-> n, ctime |-> a[n], kind |-> "gz"] : n \in {m \in SeedNames : a[m] >= 0}} :
        a \in [SeedNames -> -1..MaxClock]}

\* the cleanup calls one behaviour of SpecCleanup admits
MaxCalls == 2

CleanupCall ==
    /\ runs.triggers > 0
    /\ runs' = [runs EXCEPT !.triggers = @ - 1]
    /\ \E database \in {<<>>} \cup Databases :
          \E backups \in list_backups(fs, database) :
             \E failAt \in 0..(IF faults
                               THEN Len(DeleteAttempts(backups, clock,
                                            cfg.retention_days, cfg.max_backups))
                               ELSE 0) :
                LET r == cleanup_old_backups(fs, backups, clock, cfg.retention_days,
                                             cfg.max_backups, failAt)
                IN  /\ fs' = r.files
                    /\ cl' = [called   |-> TRUE,
                              database |-> database,
                              before   |-> fs,
                              backups  |-> backups,
                              removed  |-> r.removed,
                              aborted  |-> r.aborted,
                              attempted |-> r.attempted,
                              selected |-> r.selected,
                              prev     |-> IF cl.called
                                           THEN [called   |-> TRUE,
                                                 database |-> cl.database,
                                                 removed  |-> cl.removed,
                                                 aborted  |-> cl.aborted]
                                           ELSE NoCall]
    /\ UNCHANGED <<clock, cfg, pc, run, job, resp, faults, sch, sto>>

InitCleanup ==
    /\ fs \in SeedDirs
    /\ clock = MaxClock
    /\ cfg \in {c \in Configs : \A k \in DOMAIN c \ {"retention_days", "max_backups"} :
                                   c[k] = BaseConfig[k]}
    /\ InitThreads
    /\ sch = Unscheduled
    /\ sto = NoOp
    /\ runs = [triggers |-> MaxCalls, deletes |-> 0]
    /\ faults = TRUE

NextCleanup == CleanupCall

SpecCleanup == InitCleanup /\ [][NextCleanup]_vars


\* ------------------------------------------- the scheduler's operations

\* the scheduler settings a configuration file may hold
SchedulerConfigs ==
    {EmptyDict,
     [enabled |-> TRUE, backup_interval |-> <<"daily">>, backup_time |-> 0],
     [enabled |-> TRUE, backup_interval |-> <<"hourly">>],
     [enabled |-> TRUE, backup_interval |-> <<"2", "hours">>],
     [enabled |-> FALSE, backup_interval |-> <<"weekly">>, backup_time |-> 1]}

\* the bodies of POST /api/scheduler/configure
ConfigureRequests ==
    {[backup_interval |-> <<"hourly">>],
     [enabled |-> TRUE, backup_interval |-> <<"daily">>, backup_time |-> 1],
     [enabled |-> TRUE, backup_interval |-> <<"weekly">>, backup_time |-> 0],
     [enabled |-> TRUE, backup_interval |-> <<"fortnightly">>],
     [enabled |-> TRUE, backup_interval |-> <<"x", "hours">>],
     [enabled |-> FALSE]}

\* a request is served: the budget and the answer
Served(S, op, answer) ==
    /\ sch.requests > 0
    /\ sch' = [S EXCEPT !.requests = @ - 1, !.last = [op |-> op] @@ answer]
    /\ resp' = [resp EXCEPT !["req"] = [status |-> op, busy |-> FALSE] @@ answer]
    /\ UNCHANGED <<fs, clock, cfg, pc, run, job, runs, faults, cl, sto>>

\* POST /api/scheduler/start: start_scheduler, lines 280-287
StartScheduler ==
    Served(start(sch, "orch"), "start", [success |-> TRUE])

\* POST /api/scheduler/stop: stop_scheduler, lines 289-296
StopScheduler ==
    Served(stop(sch, "orch"), "stop", [success |-> TRUE])

\* POST /api/scheduler/configure: the route and configure_scheduler
ConfigureScheduler ==
    \E config \in ConfigureRequests :
        Served(configure_scheduler(sch, config), "configure",
               [success |-> TRUE, request |-> config])

\* GET /api/scheduler/status
SchedulerStatus ==
    Served(sch, "status", get_scheduler_status(sch))

\* _run_scheduler, lines 72-75: a loop that wakes with its scheduler's flag
\* lowered ends
LoopExits(i) ==
    /\ sch.loops[i] > 0
    /\ ~sch.scheduler[i].running
    /\ ~(sch.tick.active /\ sch.tick.by = i /\ sch.loops[i] = 1)
    /\ sch' = [sch EXCEPT !.loops[i] = @ - 1]
    /\ UNCHANGED <<fs, clock, cfg, pc, run, job, resp, runs, faults, cl, sto>>

\* _run_scheduler: schedule.run_pending() runs the job that is due, which
\* calls its owner's _run_backup
RunPending(i) ==
    /\ sch.loops[i] > 0
    /\ sch.scheduler[i].running
    /\ ~sch.tick.active
    /\ \E j \in sch.jobs :
          /\ j.next_run <= sch.now
          /\ sch' = [sch EXCEPT !.tick = [active |-> TRUE, last |-> @.last,
                                          by |-> i, job |-> j.id]]
    /\ UNCHANGED <<fs, clock, cfg, pc, run, job, resp, runs, faults, cl, sto>>

\* the outcomes of backup_function as _run_backup sees them
TickOutcomes == {"ok", "failed", "raised"}

\* a mutant of BackupReturns: an exception of backup_function is not caught
\* and ends the loop that ran the job
BackupReturnsUncaught ==
    /\ sch.tick.active
    /\ \E outcome \in TickOutcomes :
          sch' = [sch EXCEPT
                     !.tick = [active |-> FALSE, last |-> outcome],
                     !.loops[sch.tick.by] =
                         IF outcome = "raised" /\ @ > 0 THEN @ - 1 ELSE @,
                     !.jobs = {IF j.id = sch.tick.job /\ outcome # "raised"
                               THEN [j EXCEPT !.last_run = sch.now,
                                              !.next_run = schedule_next_run(j, sch.now)]
                               ELSE j : j \in @}]
    /\ UNCHANGED <<fs, clock, cfg, pc, run, job, resp, runs, faults, cl, sto>>

\* _run_backup, lines 51-57: backup_function returns or raises, which is
\* caught and logged; schedule then sets the job's next run
BackupReturns ==
    /\ sch.tick.active
    /\ \E outcome \in TickOutcomes :
          sch' = [sch EXCEPT
                     !.tick = [active |-> FALSE, last |-> outcome],
                     !.jobs = {IF j.id = sch.tick.job
                               THEN [j EXCEPT !.last_run = sch.now,
                                              !.next_run = schedule_next_run(j, sch.now)]
                               ELSE j : j \in @}]
    /\ UNCHANGED <<fs, clock, cfg, pc, run, job, resp, runs, faults, cl, sto>>

\* an hour passes
TimePasses ==
    /\ sch.now < MaxHour
    /\ sch' = [sch EXCEPT !.now = @ + 1]
    /\ UNCHANGED <<fs, clock, cfg, pc, run, job, resp, runs, faults, cl, sto>>

\* SpecSched: the process main.py --web has built: the orchestrator, whose
\* scheduler starts when the settings say enabled (lines 53-54), and the web
\* interface, whose scheduler run() starts when it is enabled (lines 2007-2008)
Booted(config, now) ==
    LET built  == Constructed(config, now)
        orch   == IF get(config, "enabled", FALSE) THEN start(built, "orch") ELSE built
        web    == IF orch.scheduler["web"].enabled THEN start(orch, "web") ELSE orch
    IN  [web EXCEPT !.requests = MaxRequests]

InitSched ==
    /\ fs = {}
    /\ clock = 0
    /\ cfg = BaseConfig
    /\ InitThreads
    /\ runs = [triggers |-> 0, deletes |-> 0]
    /\ faults = TRUE
    /\ \E config \in SchedulerConfigs : \E now \in 0..(DayHours - 1) :
          sch = Booted(config, now)
    /\ sto = NoOp

NextSched ==
    \/ StartScheduler
    \/ StopScheduler
    \/ ConfigureScheduler
    \/ SchedulerStatus
    \/ \E i \in Instances : LoopExits(i)
    \/ \E i \in Instances : RunPending(i)
    \/ BackupReturns
    \/ TimePasses

SpecSched == InitSched /\ [][NextSched]_vars

\* ------------------------------------------ the artifact store and restore

\* the bytes of a file are a sequence of tokens. gzip writes a header, the
\* deflated data and an end-of-stream trailer (CRC and length)
gzip(data) == <<"hdr">> \o data \o <<"eos">>

IsGzip(bytes) == Len(bytes) >= 2 /\ bytes[1] = "hdr" /\ bytes[Len(bytes)] = "eos"

gunzip(bytes) == SubSeq(bytes, 2, Len(bytes) - 1)

\* what a file of these bytes is to the readers of this model
KindOf(bytes) ==
    CASE bytes = <<>>                         -> "empty"
      [] IsGzip(bytes)                        -> "gz"
      [] Len(bytes) >= 2 /\ bytes[1] = "hdr"  -> "gzcut"
      [] bytes[1] = "hdr"                     -> "gzbad"
      [] OTHER                                -> "sql"

\* a file written with known bytes
WriteBytes(files, name, now, bytes) ==
    {f \in files : f.name # name}
        \cup {[name |-> name, ctime |-> now, kind |-> KindOf(bytes), bytes |-> bytes]}

\* a mutant of decompress_file: the data is written over the compressed file
decompress_file_in_place(files, input_file, now, ioError) ==
    IF ~exists(files, input_file) THEN [files |-> files, path |-> <<>>]
    ELSE LET src == FileOf(files, input_file)
         IN  IF src.kind = "gz" /\ ~ioError
             THEN [files |-> WriteBytes(files, input_file, now, gunzip(src.bytes)),
                   path  |-> input_file]
             ELSE [files |-> WriteBytes(files, input_file, now, <<>>), path |-> <<>>]

\* decompress_file, lines 61-77: the source is opened, the output created or
\* truncated, the data copied until the stream ends or breaks; an error
\* leaves what was written and gives None (here <<>>)
decompress_file(files, input_file, now, ioError) ==
    LET output_file == replace(input_file, ".gz")
    IN  IF ~exists(files, input_file) THEN [files |-> files, path |-> <<>>]
        ELSE LET src == FileOf(files, input_file)
             IN  CASE src.kind = "gz" /\ ~ioError ->
                        [files |-> WriteBytes(files, output_file, now, gunzip(src.bytes)),
                         path  |-> output_file]
                   [] src.kind \in {"gz", "gzcut"} ->
                        [files |-> WriteBytes(files, output_file, now,
                                              SubSeq(src.bytes, 2, 2)),
                         path  |-> <<>>]
                   [] OTHER ->
                        [files |-> WriteBytes(files, output_file, now, <<>>),
                         path  |-> <<>>]

\* read(4096): the tokens of one chunk
ChunkSize == 2

\* hexdigest(): the length of an MD5 digest in hexadecimal digits
DigestLen == 32

HexDigits == <<"0", "1", "2", "3", "4", "5", "6", "7",
               "8", "9", "a", "b", "c", "d", "e", "f">>

\* the state of the hash: a number below HashMod
HashMod == 251

ByteCode(tok) ==
    CASE tok = "hdr" -> 31 [] tok = "eos" -> 139 [] tok = "a" -> 97 [] OTHER -> 98

\* md5_hash.update(chunk): the bytes of the chunk are absorbed in order
RECURSIVE md5_update(_, _)
md5_update(h, chunk) ==
    IF chunk = <<>> THEN h
    ELSE md5_update((h * 7 + ByteCode(Head(chunk))) % HashMod, Tail(chunk))

\* for chunk in iter(lambda: f.read(4096), b""): md5_hash.update(chunk)
RECURSIVE md5_stream(_, _)
md5_stream(h, rest) ==
    IF rest = <<>> THEN h
    ELSE LET n == IF Len(rest) < ChunkSize THEN Len(rest) ELSE ChunkSize
         IN  md5_stream(md5_update(h, SubSeq(rest, 1, n)), SubSeq(rest, n + 1, Len(rest)))

hexdigest(h) == [i \in 1..DigestLen |-> HexDigits[((h + i * (h + 1)) % 16) + 1]]

\* a mutant of calculate_checksum: the name of the file goes into the digest
calculate_checksum_named(files, file_path, ioError) ==
    IF ~exists(files, file_path) \/ ioError THEN <<>>
    ELSE hexdigest(md5_stream(Len(file_path), FileOf(files, file_path).bytes))

\* calculate_checksum, lines 79-93: the digest, or "" (here <<>>) on any error
calculate_checksum(files, file_path, ioError) ==
    IF ~exists(files, file_path) \/ ioError THEN <<>>
    ELSE hexdigest(md5_stream(0, FileOf(files, file_path).bytes))

\* the external calls of a restore and how each may end
RestoreOutcomes ==
    [decompress : {"ok", "error"}, mysql : {"ok", "failed"}, remove : {"ok", "error"}]

\* a mutant of restore_database: a failed decompression is passed over and the
\* compressed file itself is handed to mysql
restore_database_lenient(files, database, backup_file, now, o) ==
    IF ~exists(files, backup_file)
    THEN [files |-> files, ok |-> FALSE, steps |-> <<>>]
    ELSE LET d  == IF endswith(backup_file, <<".gz">>)
                   THEN decompress_file(files, backup_file, now, o.decompress = "error")
                   ELSE [files |-> files, path |-> backup_file]
             s1 == IF endswith(backup_file, <<".gz">>)
                   THEN <<<<"decompress", d.path # <<>>>>>> ELSE <<>>
             restore_file == IF d.path = <<>> THEN backup_file ELSE d.path
             restored == exists(d.files, restore_file) /\ o.mysql = "ok"
             s2 == Append(s1, <<"restore", restored>>)
         IN  IF ~restored
             THEN [files |-> d.files, ok |-> FALSE, steps |-> s2]
             ELSE IF restore_file # backup_file /\ exists(d.files, restore_file)
             THEN IF o.remove = "ok"
                  THEN [files |-> RemoveFile(d.files, restore_file), ok |-> TRUE,
                        steps |-> Append(s2, <<"remove", TRUE>>)]
                  ELSE [files |-> d.files, ok |-> FALSE,
                        steps |-> Append(s2, <<"remove", FALSE>>)]
             ELSE [files |-> d.files, ok |-> TRUE, steps |-> s2]

\* restore_database, lines 154-180: the files after it, what it returns and
\* the steps it took, each with whether it succeeded
restore_database(files, database, backup_file, now, o) ==
    IF ~exists(files, backup_file)
    THEN [files |-> files, ok |-> FALSE, steps |-> <<>>]
    ELSE LET d  == IF endswith(backup_file, <<".gz">>)
                   THEN decompress_file(files, backup_file, now, o.decompress = "error")
                   ELSE [files |-> files, path |-> backup_file]
             s1 == IF endswith(backup_file, <<".gz">>)
                   THEN <<<<"decompress", d.path # <<>>>>>> ELSE <<>>
             restore_file == d.path
             \* restore_backup (database_connector.py lines 139-180)
             restored == exists(d.files, restore_file) /\ o.mysql = "ok"
             s2 == Append(s1, <<"restore", restored>>)
         IN  IF d.path = <<>>
             THEN [files |-> d.files, ok |-> FALSE, steps |-> s1]
             ELSE IF ~restored
             THEN [files |-> d.files, ok |-> FALSE, steps |-> s2]
             ELSE IF restore_file # backup_file /\ exists(d.files, restore_file)
             THEN IF o.remove = "ok"
                  THEN [files |-> RemoveFile(d.files, restore_file), ok |-> TRUE,
                        steps |-> Append(s2, <<"remove", TRUE>>)]
                  ELSE [files |-> d.files, ok |-> FALSE,
                        steps |-> Append(s2, <<"remove", FALSE>>)]
             ELSE [files |-> d.files, ok |-> TRUE, steps |-> s2]

\* SpecStore: restore_database, verify_backup, calculate_checksum and
\* list_backups called on an arbitrary artifact directory

\* the names of the directory: a compressed artifact of each database and the
\* uncompressed artifact of the first
StoreNames ==
    {generate_backup_filename(DbA, 0, TRUE), generate_backup_filename(DbA, 0, FALSE),
     generate_backup_filename(DbB, 1, TRUE)}

\* a name no file of the directory has
MissingName == generate_backup_filename(DbB, 1, FALSE)

\* what a file may hold: nothing, dump text, a gzip stream whole or cut short
StoreBytes(name) ==
    IF endswith(name, <<".gz">>)
    THEN {<<>>, gzip(<<"a">>), <<"hdr", "a">>, <<"hdr">>}
    ELSE {<<>>, <<"a">>, <<"b">>}

StoreFiles(name) ==
    {[name |-> name, ctime |-> c, kind |-> KindOf(b), bytes |-> b] :
        c \in 0..1, b \in StoreBytes(name)}

\* a directory: of each name no file or one
StoreDirs ==
    {{a[n] : n \in {m \in StoreNames : a[m].ctime >= 0}} :
        a \in {b \in [StoreNames -> {[ctime |-> -1]}
                                       \cup UNION {StoreFiles(n) : n \in StoreNames}] :
                  \A n \in StoreNames : b[n].ctime >= 0 => b[n].name = n}}

StoreCall(files, record) ==
    /\ runs.triggers > 0
    /\ runs' = [runs EXCEPT !.triggers = @ - 1]
    /\ fs' = files
    /\ sto' = record
    /\ UNCHANGED <<clock, cfg, pc, run, job, resp, faults, cl, sch>>

\* main.py --restore and POST /api/backup/restore
RestoreCall ==
    \E database \in Databases : \E backup_file \in StoreNames \cup {MissingName} :
        \E o \in RestoreOutcomes :
            LET r == restore_database(fs, database, backup_file, clock, o)
            IN  StoreCall(r.files, [name |-> "restore", path |-> backup_file,
                                    ok |-> r.ok, steps |-> r.steps, before |-> fs])

VerifyCall ==
    \E path \in StoreNames \cup {MissingName} : \E ioError \in BOOLEAN :
        StoreCall(fs, [name |-> "verify", path |-> path, ioError |-> ioError,
                       ok |-> verify_backup(fs, path, ioError)])

\* what a call of calculate_checksum read and gave
Digested(files, path, ioError) ==
    [path   |-> path,
     bytes  |-> IF exists(files, path) THEN <<FileOf(files, path).bytes>> ELSE <<>>,
     digest |-> calculate_checksum(files, path, ioError)]

ChecksumCall ==
    \E path \in StoreNames \cup {MissingName} : \E ioError \in BOOLEAN :
        StoreCall(fs, [name |-> "checksum", this |-> Digested(fs, path, ioError),
                       prev |-> IF sto.name = "checksum" THEN <<sto.this>> ELSE <<>>])

ListCall ==
    \E database \in {<<>>} \cup Databases : \E backups \in list_backups(fs, database) :
        StoreCall(fs, [name |-> "list", database |-> database, backups |-> backups])

InitStore ==
    /\ fs \in StoreDirs
    /\ clock = MaxClock
    /\ cfg = BaseConfig
    /\ InitThreads
    /\ sch = Unscheduled
    /\ sto = NoOp
    /\ runs = [triggers |-> MaxCalls, deletes |-> 0]
    /\ faults = TRUE

NextStore == RestoreCall \/ VerifyCall \/ ChecksumCall \/ ListCall

SpecStore == InitStore /\ [][NextStore]_vars


\* ------------------------------------------------------------- the claims

Keys(results) == {r[1] : r \in results}

\* the targets the configuration enables, the cloud drive included
EnabledTargets ==
    cfg.storage \cup (IF cfg.gdrive THEN {"google_drive"} ELSE {})

\* the stages a job has run, the notification aside
StagesRun(j) == SelectSeq(j.stages, LAMBDA x : x # "Notifying")

\* a thread is executing a pipeline run
InFlight(t) == pc[t] \notin {"idle", "return"}

\* C1: in every reachable state at most one pipeline run is executing, whatever
\* triggered it (scheduler tick, run-now, API run); two runs never interleave.
C1_SingleFlight == Cardinality({t \in Threads : InFlight(t)}) <= 1

\* C2: a trigger that arrives while a run is in flight is answered with a
\* rejection and starts no pipeline stage.
C2_BusyTriggerRejected ==
    \A t \in Threads :
        /\ run[t].busy => run[t].jobs = 0 /\ job[t].stages = <<>>
        /\ resp[t].busy => resp[t].status = "rejected"

\* the error texts of the three fatal stages, and the stage each belongs to
StageErrors ==
    {"Failed to create database dump", "Compression failed",
     "Backup verification failed"}

FailedStage(error) ==
    CASE error = "Failed to create database dump" -> "Dumping"
      [] error = "Compression failed"             -> "Compressing"
      [] OTHER                                    -> "Verifying"

\* C3: when Dumping, Compressing or Verifying fails the job goes to Failed at
\* once: the failing stage is the last one run, no upload or cleanup follows,
\* and the job ends with a failure notification that carries the error text
\* and the elapsed duration, and with success = false.
C3_StageFailureIsFatal ==
    \A t \in Threads :
        job[t].error \in StageErrors =>
            /\ pc[t] \in {"failed", "jobdone"}
            /\ LET ran == StagesRun(job[t])
               IN  /\ Len(ran) > 0
                   /\ ran[Len(ran)] = FailedStage(job[t].error)
                   /\ \A k \in 1..(Len(ran) - 1) : ran[k] # ran[Len(ran)]
                   /\ Range(ran) \cap {"Uploading", "Cleaning"} = {}
            /\ job[t].uploads = {}
            /\ pc[t] = "jobdone" =>
                   /\ ~job[t].success
                   /\ job[t].note.invoked
                   /\ ~job[t].note.success
                   /\ job[t].note.message.error = <<job[t].error>>
                   /\ "duration" \in DOMAIN job[t].note.message.details
                   /\ job[t].note.message.details.duration \in 0..(clock - job[t].start)

\* C3's case: a job that failed in Verifying has sent its failure notification
C3_Witness ==
    \E t \in Threads :
        /\ pc[t] = "jobdone"
        /\ job[t].error = "Backup verification failed"
        /\ job[t].note.invoked

\* C4: nothing is passed to an upload (storage target or cloud drive) unless
\* Verify returned ok for that path earlier in the same job; a job whose
\* verification failed uploads nothing.
C4_UploadOnlyVerified ==
    \A t \in Threads :
        /\ \A u \in job[t].uploads : u[2] \in job[t].verified
        /\ "Uploading" \in Range(job[t].stages) => job[t].backup_path \in job[t].verified
        /\ job[t].error = "Backup verification failed" =>
               job[t].uploads = {} /\ "Uploading" \notin Range(job[t].stages)

\* C4's case: the artifact has gone to a storage target and to the cloud drive
C4_Witness ==
    \E t \in Threads :
        /\ <<"ftp", job[t].backup_path>> \in job[t].uploads
        /\ <<"google_drive", job[t].backup_path>> \in job[t].uploads

\* C5: a job whose dump, compression and verification succeeded ends with
\* success = true whatever the targets did, and every target whose upload
\* failed is recorded as false in the outcome the job carries to its
\* notification.
C5_UploadFailureNotFatal ==
    \A t \in Threads :
        (pc[t] = "jobdone" /\ job[t].verified # {}) =>
            /\ job[t].success
            /\ \A x \in job[t].faulty :
                  /\ <<x, FALSE>> \in job[t].storage_results
                  /\ <<x, TRUE>> \notin job[t].storage_results
            /\ job[t].note.invoked
            /\ job[t].note.success
            /\ job[t].note.message.details.storage = job[t].storage_results

\* C5's case: every enabled target failed and the job succeeded
C5_Witness ==
    \E t \in Threads :
        /\ pc[t] = "jobdone"
        /\ job[t].success
        /\ job[t].faulty = {"ftp", "sftp", "google_drive"}

\* C6: run_backup returns one result for every requested database, having run
\* one job for each, whatever the jobs' outcomes; while it runs, the results
\* are those of the databases before the current one.
C6_BatchAlwaysCompletes ==
    \A t \in Threads :
        /\ pc[t] = "return" =>
               /\ Keys(run[t].results) = Range(run[t].databases)
               /\ run[t].jobs = Len(run[t].databases)
               /\ \A r1, r2 \in run[t].results : r1[1] = r2[1] => r1 = r2
        /\ InFlight(t) =>
               /\ run[t].i \in 1..Len(run[t].databases)
               /\ Keys(run[t].results) =
                      Range(SubSeq(run[t].databases, 1, run[t].i - 1))

\* C6's case: the first database of a batch failed and the second was backed up
C6_Witness ==
    \E t \in Threads :
        /\ pc[t] = "return"
        /\ Len(run[t].databases) = 2
        /\ <<run[t].databases[1], FALSE>> \in run[t].results
        /\ <<run[t].databases[2], TRUE>> \in run[t].results

\* a job whose upload stage is over
Uploaded(t) ==
    /\ pc[t] \in {"cleanup", "notify", "jobdone"}
    /\ "Uploading" \in Range(job[t].stages)

\* C7 as stated: after the upload stage every enabled target has been
\* attempted and has one boolean entry in the outcome mapping.
C7_EveryTargetHasEntry ==
    \A t \in Threads :
        Uploaded(t) =>
            /\ Keys(job[t].storage_results) = EnabledTargets
            /\ Keys(job[t].uploads) = EnabledTargets

\* C7 amended: when the artifact exists as upload_backup is called, every
\* enabled target is attempted and has one boolean entry, whatever the other
\* targets did; when it does not exist, no storage target is attempted and the
\* mapping is {'error': False}, with the cloud drive's entry if it is enabled.
C7_EveryTargetHasEntryIfFound ==
    \A t \in Threads :
        Uploaded(t) =>
            /\ \A r1, r2 \in job[t].storage_results : r1[1] = r2[1] => r1 = r2
            /\ IF job[t].found
               THEN /\ Keys(job[t].storage_results) = EnabledTargets
                    /\ Keys(job[t].uploads) = EnabledTargets
               ELSE /\ Keys(job[t].storage_results) =
                           {"error"} \cup (EnabledTargets \ cfg.storage)
                    /\ Keys(job[t].uploads) = EnabledTargets \ cfg.storage
                    /\ \A r \in job[t].storage_results : ~r[2]

\* C7's case: of three targets the second failed, the first and third succeeded
C7_Witness ==
    \E t \in Threads :
        /\ Uploaded(t)
        /\ job[t].faulty = {"ftp"}
        /\ {<<"local", TRUE>>, <<"ftp", FALSE>>, <<"sftp", TRUE>>}
               \subseteq job[t].storage_results

\* C8: every job ends through the notification dispatcher, on the success path
\* and on every failure path, and a failed job's message holds the error text
\* and the elapsed duration.
C8_AlwaysNotified ==
    \A t \in Threads :
        pc[t] = "jobdone" =>
            /\ job[t].note.invoked
            /\ job[t].stages[Len(job[t].stages)] = "Notifying"
            /\ job[t].note.success = job[t].success
            /\ job[t].note.message.database = job[t].database
            /\ ~job[t].success =>
                   /\ job[t].error # ""
                   /\ job[t].note.message.error = <<job[t].error>>
                   /\ "duration" \in DOMAIN job[t].note.message.details
                   /\ job[t].note.message.details.duration \in 0..(clock - job[t].start)

\* C8's case: a job that could not reach the database notified both channels
C8_Witness ==
    \E t \in Threads :
        /\ pc[t] = "jobdone"
        /\ job[t].error = "Database connection failed"
        /\ job[t].note.invoked
        /\ job[t].note.delivered = Channels

\* the retention policy on what the last cleanup call left of its scope
NotOlderThan(f, days) == f.ctime >= clock - days * DayTicks

RetentionHolds ==
    /\ \A f \in Listed(fs, cl.database) : NotOlderThan(f, cfg.retention_days)
    /\ Cardinality(Listed(fs, cl.database)) <= cfg.max_backups

Min(a, b) == IF a <= b THEN a ELSE b

\* the survivors of the last cleanup call are the newest of the artifacts of
\* its scope that are not too old, as many as max_backups allows
SurvivorsAreNewest ==
    LET recent    == {f \in Listed(cl.before, cl.database) :
                         NotOlderThan(f, cfg.retention_days)}
        survivors == Listed(fs, cl.database)
    IN  /\ survivors \subseteq recent
        /\ Cardinality(survivors) = Min(cfg.max_backups, Cardinality(recent))
        /\ \A x \in survivors : \A e \in recent \ survivors : x.ctime >= e.ctime

\* what holds of every cleanup call: the count returned is the number of files
\* removed, and each removed file is one a rule selects
CountAndSelection ==
    LET scope   == Listed(cl.before, cl.database)
        recent  == {f \in scope : NotOlderThan(f, cfg.retention_days)}
        evicted == cl.before \ fs
    IN  /\ fs \subseteq cl.before
        /\ cl.removed = Cardinality(evicted)
        /\ evicted \subseteq scope
        /\ \A e \in evicted :
              \/ ~NotOlderThan(e, cfg.retention_days)
              \/ Cardinality({f \in recent \ {e} : f.ctime >= e.ctime})
                     >= cfg.max_backups

C11_DeleteErrorTolerated == cl.called => cl.attempted = cl.selected


\* an artifact of `database`: a file whose name generate_backup_filename
\* gives for it at some time
BelongsTo(f, database) ==
    \E now \in 0..(Len(StampText) - 1) : \E compression \in BOOLEAN :
        f.name = generate_backup_filename(database, now, compression)

\* C12: the Cleaning stage of a job for database X neither deletes nor counts
\* an artifact of another database, also when X is a prefix of its name.
C12_CleaningScoped ==
    \A t \in Threads :
        \A f \in job[t].listed \cup job[t].evicted : BelongsTo(f, job[t].database)


\* a thread's job is between the start and the end of its uploads
MidUpload(t) == pc[t] \in {"ftp", "sftp", "gdrive"}

\* C13: retention eviction never deletes an artifact while an upload of it is
\* in progress: no Cleaning step of any thread removes the file another
\* thread's job is uploading.
C13_NoEvictionMidUpload ==
    [][\A t \in Threads :
          (/\ MidUpload(t)
           /\ exists(fs, job[t].backup_path)
           /\ \E u \in Threads : pc[u] = "cleanup" /\ pc'[u] = "notify")
          => exists(fs', job[t].backup_path)]_vars


\* the last cleanup call follows another one on the same scope (the policy
\* and the clock do not change and no artifact is added between the calls)
SecondCall == cl.called /\ cl.prev.called /\ cl.prev.database = cl.database

C15_ExitCodeReportsFailure ==
    \A t \in Threads :
        resp[t].status = "exit" =>
            (resp[t].code = 0 <=> \A r \in resp[t].results : r[2])


\* C16: run_backup([]) returns an empty result mapping at once: no job is
\* started, so nothing is dumped, uploaded, cleaned or notified, and the
\* caller is answered with the empty mapping.
C16_EmptyBatch ==
    \A t \in Threads :
        /\ (run[t].trigger # "none" /\ run[t].databases = <<>>) =>
               /\ pc[t] = "return"
               /\ run[t].results = {}
               /\ run[t].jobs = 0
               /\ job[t] = NoJob
               /\ fs = {}
        /\ (resp[t].status = "completed" /\ resp[t].results = {}) =>
               /\ job[t] = NoJob
               /\ fs = {}

\* C16's case: POST /api/backup/run with an empty list has been answered
C16_Witness ==
    \E t \in Threads :
        /\ pc[t] = "idle"
        /\ resp[t].status = "completed"
        /\ resp[t].results = {}


\* a cadence of the grammar: daily, hourly, weekly, or a positive number of hours
ValidCadence(interval) ==
    \/ interval \in {<<"daily">>, <<"hourly">>, <<"weekly">>}
    \/ /\ Len(interval) = 2
       /\ interval[2] = "hours"
       /\ interval[1] \in Range(NumberText)

\* C17: an illegal cadence is rejected when the scheduler is configured: the
\* configure request reports failure, and no enabled scheduler is Running
\* with a cadence outside the grammar.
C17_IllegalCadenceRejected ==
    /\ \A i \in Instances :
          (sch.scheduler[i].running /\ sch.scheduler[i].enabled)
              => ValidCadence(sch.scheduler[i].interval)
    /\ (/\ sch.last.op = "configure"
        /\ "backup_interval" \in DOMAIN sch.last.request
        /\ ~ValidCadence(sch.last.request.backup_interval))
           => ~sch.last.success

\* C18: a run started by a scheduler tick, whether it succeeds, fails or
\* raises, never ends the timing loop: a Running scheduler always has a live
\* loop, and when the run returns the loops are as before and the job that
\* ran is due again at a later hour.
C18_LoopSurvivesRun ==
    /\ [](\A i \in Instances : sch.scheduler[i].running => sch.loops[i] >= 1)
    /\ [][(sch.tick.active /\ ~sch'.tick.active) =>
             /\ sch'.loops = sch.loops
             /\ \A j \in sch'.jobs :
                   j.id = sch.tick.job => j.next_run > sch.now /\ j.last_run = sch.now]_vars

\* C18's case: after a run that raised, the loop has fired the next tick
C18_Witness ==
    /\ sch.tick.active
    /\ sch.tick.last = "raised"
    /\ sch.scheduler[sch.tick.by].running

\* C19: Stop leaves the orchestrator's scheduler Stopped and reports success,
\* and on a scheduler that is already Stopped it changes nothing: not the
\* scheduler objects, not the scheduled jobs, not the loops.
C19_StopIdempotent ==
    [][(sch'.requests = sch.requests - 1 /\ sch'.last.op = "stop") =>
          /\ ~sch'.scheduler["orch"].running
          /\ sch'.last.success
          /\ ~sch.scheduler["orch"].running =>
                 /\ sch'.scheduler = sch.scheduler
                 /\ sch'.jobs = sch.jobs
                 /\ sch'.loops = sch.loops]_vars

\* the hour `at` of the day of `now`, and of the day after
TodayAt(now, at) == (now \div DayHours) * DayHours + at

TomorrowAt(now, at) == TodayAt(now, at) + DayHours

\* C20: while the orchestrator's scheduler is Running with a valid cadence,
\* NextRun() is a time later than the start and fits the cadence: daily at
\* the configured hour, weekly on Sunday at that hour, hourly and N-hourly at
\* least a period after the start; before the first run, daily gives today
\* when started before the hour and tomorrow otherwise.
C20_NextRunAfterStart ==
    LET s == sch.scheduler["orch"]
        r == get_next_run(sch)
    IN  (s.running /\ s.enabled /\ ValidCadence(s.interval)) =>
          /\ r.scheduled
          /\ r.time > s.started
          /\ s.interval = <<"daily">> =>
                /\ r.time % DayHours = s.backup_time
                /\ (\A j \in sch.jobs : j.last_run = -1) =>
                      r.time = IF s.started % DayHours < s.backup_time
                               THEN TodayAt(s.started, s.backup_time)
                               ELSE TomorrowAt(s.started, s.backup_time)
          /\ s.interval = <<"weekly">> =>
                /\ r.time % DayHours = s.backup_time
                /\ (r.time \div DayHours) % WeekDays = 0
                /\ r.time - s.started <= WeekDays * DayHours
          /\ s.interval = <<"hourly">> => r.time >= s.started + 1
          /\ Len(s.interval) = 2 => r.time >= s.started + int(<<s.interval[1]>>)

\* C20's case: a daily schedule started after its hour answers tomorrow
C20_Witness ==
    LET s == sch.scheduler["orch"]
    IN  /\ s.running
        /\ s.enabled
        /\ s.interval = <<"daily">>
        /\ s.started % DayHours > s.backup_time
        /\ resp["req"].status = "status"
        /\ resp["req"].next_run.scheduled
        /\ resp["req"].next_run.time = TomorrowAt(s.started, s.backup_time)

\* what the scheduler routes answer for a scheduler without a next run
NotScheduled(answer) == ~answer.scheduled

\* the jobs of the schedule module that scheduler i scheduled itself
OwnJobs(S, i) == {j \in S.jobs : j.owner = i}

\* what holds of the status route: for a disabled scheduler it answers
\* "Not scheduled" or "No jobs scheduled", whatever the scheduler's state
StatusNotScheduledWhenDisabled ==
    ~sch.scheduler["orch"].enabled => NotScheduled(get_scheduler_status(sch).next_run)

\* C21: NextRun() of a disabled scheduler (never started, started while
\* disabled, or stopped) answers "not scheduled", and NextRun() of any
\* scheduler never answers a run time of a job another scheduler scheduled.
C21_NextRunNotScheduledWhenDisabled ==
    \A i \in Instances :
        /\ ~sch.scheduler[i].enabled => NotScheduled(get_next_run(sch))
        /\ get_next_run(sch).scheduled =>
              \E j \in OwnJobs(sch, i) : j.next_run = get_next_run(sch).time

\* the steps of the last restore that have this name, and whether one failed
StepsNamed(name) == {k \in 1..Len(sto.steps) : sto.steps[k][1] = name}

StepFailed(name) == \E k \in StepsNamed(name) : ~sto.steps[k][2]

\* C22: Restore aborts at the first failing step: with the artifact missing
\* or the decompression failed, the database's restore is never invoked and
\* Restore fails; with the database's restore failed, Restore fails; Restore
\* returns ok only when every step it took succeeded; no step is taken twice.
C22_RestoreAbortsAtFirstFailure ==
    sto.name = "restore" =>
        /\ ~exists(sto.before, sto.path) => (sto.steps = <<>> /\ ~sto.ok)
        /\ StepFailed("decompress") => (StepsNamed("restore") = {} /\ ~sto.ok)
        /\ StepFailed("restore") => (StepsNamed("remove") = {} /\ ~sto.ok)
        /\ sto.ok => (\A k \in 1..Len(sto.steps) : sto.steps[k][2])
        /\ sto.ok => StepsNamed("restore") # {}
        /\ \A name \in {"decompress", "restore", "remove"} :
              Cardinality(StepsNamed(name)) <= 1

\* C22's case: a restore whose decompression failed
C22_Witness ==
    /\ sto.name = "restore"
    /\ exists(sto.before, sto.path)
    /\ StepFailed("decompress")
    /\ ~sto.ok

\* C23: after a successful Restore from a compressed artifact the
\* decompressed temporary file does not exist and the compressed artifact is
\* there as it was; a successful Restore from an uncompressed artifact leaves
\* the directory as it was.
C23_RestoreCleansTemp ==
    (sto.name = "restore" /\ sto.ok) =>
        IF endswith(sto.path, <<".gz">>)
        THEN /\ ~exists(fs, replace(sto.path, ".gz"))
             /\ exists(fs, sto.path)
             /\ FileOf(fs, sto.path) = FileOf(sto.before, sto.path)
        ELSE fs = sto.before

\* C23's case: a compressed artifact was restored and the temporary file removed
C23_Witness ==
    /\ sto.name = "restore"
    /\ sto.ok
    /\ endswith(sto.path, <<".gz">>)
    /\ StepsNamed("remove") # {}
    /\ ~exists(fs, replace(sto.path, ".gz"))

\* C24: Verify(path) fails when the file is missing, when it is zero-length
\* and when it is a compressed file whose stream does not read back to its
\* end-of-stream marker; it returns ok on a non-empty file holding a whole
\* gzip stream that is read without an I/O error.
C24_VerifyDetectsBrokenFiles ==
    sto.name = "verify" =>
        LET compressed == endswith(sto.path, <<".gz">>)
        IN  /\ ~exists(fs, sto.path) => ~sto.ok
            /\ (exists(fs, sto.path) /\ FileOf(fs, sto.path).bytes = <<>>) => ~sto.ok
            /\ (exists(fs, sto.path) /\ compressed /\ ~IsGzip(FileOf(fs, sto.path).bytes))
                  => ~sto.ok
            /\ (exists(fs, sto.path) /\ compressed /\ IsGzip(FileOf(fs, sto.path).bytes)
                  /\ ~sto.ioError) => sto.ok

PlacesOf(f) == {k \in 1..Len(sto.backups) : sto.backups[k] = f}

\* C26: List returns every backup file of the directory that is an artifact
\* of the database of the filter, and with no filter every backup file, each
\* once; what it returns are files of the directory, none twice, the newest
\* first.
C26_ListCompleteAndOrdered ==
    sto.name = "list" =>
        /\ \A f \in fs :
              (IsBackupName(f.name) /\ (sto.database = <<>> \/ BelongsTo(f, sto.database)))
                 => Cardinality(PlacesOf(f)) = 1
        /\ \A k \in 1..Len(sto.backups) :
              /\ sto.backups[k] \in fs
              /\ Cardinality(PlacesOf(sto.backups[k])) = 1
        /\ \A k \in 1..(Len(sto.backups) - 1) :
              sto.backups[k].ctime >= sto.backups[k + 1].ctime

\* C26's case: a filtered listing of a compressed and an uncompressed
\* artifact of different creation times
C26_Witness ==
    /\ sto.name = "list"
    /\ sto.database = DbA
    /\ Len(sto.backups) >= 2
    /\ sto.backups[1].ctime > sto.backups[2].ctime
    /\ \E k \in 1..Len(sto.backups) : ~endswith(sto.backups[k].name, <<".gz">>)

\* a job's notification was dispatched and some channel failed to deliver
DeliveryFailed(t) ==
    /\ job[t].note.invoked
    /\ job[t].note.delivered # job[t].note.attempted

\* C27: a channel's delivery failure changes nothing: every channel enabled
\* for the outcome is attempted whatever the other channel did, the job's
\* result is the one its stages gave, and the job's result is recorded and the
\* batch goes on to its next database or returns.
C27_DeliveryFailureHarmless ==
    /\ [](\A t \in Threads :
            job[t].note.invoked =>
                /\ job[t].note.attempted = NotifyChannels(cfg.notify, job[t].note.success)
                /\ job[t].note.delivered \subseteq job[t].note.attempted
                /\ job[t].success = (job[t].error = "")
                /\ pc[t] = "jobdone")
    /\ [][\A t \in Threads :
            (DeliveryFailed(t) /\ pc'[t] # pc[t]) =>
                /\ <<job[t].database, job[t].success>> \in run'[t].results
                /\ pc'[t] = IF run[t].i < Len(run[t].databases) THEN "start" ELSE "return"]_vars

\* C27's case: a job succeeded, its email failed and its telegram was delivered
C27_Witness ==
    \E t \in Threads :
        /\ pc[t] = "jobdone"
        /\ job[t].success
        /\ job[t].note.attempted = Channels
        /\ job[t].note.delivered = {"telegram"}

\* C28: with every external call returning, a run_backup call that was
\* started returns, and a job that is in a stage reaches its end, done or
\* failed; no job stays in a stage forever.
C28_EveryJobTerminates ==
    \A t \in Threads :
        /\ (pc[t] # "idle") ~> (pc[t] = "idle")
        /\ (pc[t] \notin {"idle", "return", "jobdone"}) ~> (pc[t] = "jobdone")

\* C28's case: a batch of two databases has returned, one job failed and one done
C28_Witness ==
    /\ pc["req"] = "idle"
    /\ resp["req"].status = "completed"
    /\ \E d1, d2 \in Databases :
          {<<d1, TRUE>>, <<d2, FALSE>>} \subseteq resp["req"].results

\* the form {database}_full_{YYYYMMDD_HHMMSS}.sql, with .gz when compressed
HasNameForm(name, database, compression) ==
    \E now \in 0..MaxClock :
        name = database \o <<"_", "full", "_", strftime(now)>>
                        \o (IF compression THEN <<".sql", ".gz">> ELSE <<".sql">>)

\* a job's artifact has been written and verified
Stored(t) == "Verifying" \in Range(job[t].stages) /\ job[t].error = ""

\* C29: the generated name has the form {database}_full_{stamp}.sql, with
\* .gz exactly when compression is on, and the artifact a job has stored and
\* verified is on disk under the name generated for its database.
C29_ArtifactCarriesGeneratedName ==
    /\ \A d \in Databases \cup {DbGz} : \A now \in 0..MaxClock : \A c \in BOOLEAN :
          /\ HasNameForm(generate_backup_filename(d, now, c), d, c)
          /\ endswith(generate_backup_filename(d, now, c), <<".gz">>) = c
    /\ \A t \in Threads :
          Stored(t) => HasNameForm(job[t].backup_path, job[t].database, cfg.compression)

\* the stages of a job that succeeds, in the order of lines 83-136
StageOrder ==
    IF cfg.compression
    THEN <<"Dumping", "Compressing", "Verifying", "Uploading", "Cleaning", "Notifying">>
    ELSE <<"Dumping", "Verifying", "Uploading", "Cleaning", "Notifying">>

IsPrefix(s, full) == Len(s) <= Len(full) /\ s = SubSeq(full, 1, Len(s))

\* a job is about to clean, is cleaning or has cleaned
CleaningReached(t) == pc[t] = "cleanup" \/ "Cleaning" \in Range(job[t].stages)

\* the stages a job without error has run are the first of StageOrder, and
\* all of it once the job is done
OrderKept(t) ==
    job[t].error = "" =>
        /\ IsPrefix(job[t].stages, StageOrder)
        /\ pc[t] = "jobdone" => job[t].stages = StageOrder

\* C30 as stated: a job that succeeds runs Dumping, Compressing (when
\* enabled), Verifying, Uploading, Cleaning and Notifying in this order, each
\* once, and when Cleaning starts the upload to every enabled target, the
\* cloud drive included, has been made and has returned.
C30_StagesInOrder ==
    \A t \in Threads :
        /\ OrderKept(t)
        /\ (job[t].error = "" /\ CleaningReached(t)) =>
              /\ Keys(job[t].uploads) = EnabledTargets
              /\ Keys(job[t].storage_results) = EnabledTargets

\* C30 amended: the same order; when Cleaning starts, the upload to every
\* enabled target has returned if the artifact was there as the fan-out
\* began; if it was not, the fan-out returned at once without an attempt and
\* only the cloud drive's upload was made. Every upload that was made has
\* its outcome, so none is pending.
C30_StagesInOrderIfFound ==
    \A t \in Threads :
        /\ OrderKept(t)
        /\ (job[t].error = "" /\ CleaningReached(t)) =>
              /\ Keys(job[t].uploads) =
                    IF job[t].found THEN EnabledTargets ELSE EnabledTargets \ cfg.storage
              /\ Keys(job[t].uploads) \subseteq Keys(job[t].storage_results)
              /\ Keys(job[t].storage_results) \ Keys(job[t].uploads) \subseteq {"error"}

\* C30's case: a job with compression and all four targets is done, the
\* stages run in order although an upload failed
C30_Witness ==
    \E t \in Threads :
        /\ pc[t] = "jobdone"
        /\ job[t].success
        /\ cfg.compression
        /\ job[t].stages = StageOrder
        /\ Keys(job[t].uploads) = {"local", "ftp", "sftp", "google_drive"}
        /\ job[t].faulty # {}

\* C31: the jobs of a batch run one after the other in the order of the list:
\* the job in progress is the one of the current place, as many jobs were
\* started as places were reached, the next job starts only when the job
\* before it has run its last stage and its result is recorded, and the batch
\* ends with the job of the last place.
C31_SequentialInOrder ==
    /\ [](\A t \in Threads :
            InFlight(t) =>
                /\ run[t].i \in 1..Len(run[t].databases)
                /\ IF pc[t] = "start"
                   THEN job[t] = NoJob /\ run[t].jobs = run[t].i - 1
                   ELSE /\ job[t].database = run[t].databases[run[t].i]
                        /\ run[t].jobs = run[t].i)
    /\ [][\A t \in Threads :
            (pc[t] # "start" /\ pc'[t] = "start" /\ pc[t] # "idle") =>
                /\ pc[t] = "jobdone"
                /\ job[t].stages # <<>>
                /\ job[t].stages[Len(job[t].stages)] = "Notifying"
                /\ run'[t].i = run[t].i + 1
                /\ <<run[t].databases[run[t].i], job[t].success>> \in run'[t].results]_vars
    /\ [][\A t \in Threads :
            (pc[t] = "jobdone" /\ pc'[t] = "return") =>
                run[t].i = Len(run[t].databases)]_vars

\* C31's case: the second job of a batch is dumping, the first one's result recorded
C31_Witness ==
    \E t \in Threads :
        /\ pc[t] = "dump"
        /\ run[t].i = 2
        /\ Keys(run[t].results) = {run[t].databases[1]}

\* the raw dump a job's Compress reads and the compressed file it writes
RawOf(t) == TempSqlFile(job[t].backup_path)

GzOf(t) == RawOf(t) \o <<".gz">>

\* thread t takes its Compress step
Compresses(t) == pc[t] = "compress" /\ pc'[t] # "compress"

C33_ConnectionsReleased ==
    \A t \in Threads : job[t].conns = {}

\* a name under which the configuration stores artifacts
ArtifactName(name) ==
    IF cfg.compression THEN endswith(name, <<".sql", ".gz">>) ELSE endswith(name, <<".sql">>)

\* the path thread t writes in this step, if it writes one: the dump's when it
\* succeeds, the compressed file's when Compress returns it
WrittenPath(t) ==
    IF pc[t] = "dump" /\ pc'[t] \in {"compress", "verify"}
    THEN <<TempSqlFile(job'[t].backup_path)>>
    ELSE IF pc[t] = "compress" /\ pc'[t] = "verify"
    THEN <<job'[t].backup_path>>
    ELSE <<>>

\* C34: no job writes to the path of an artifact that exists: an artifact, once
\* created, is not written again.
C34_ArtifactsNeverOverwritten ==
    [][\A t \in Threads : \A path \in Range(WrittenPath(t)) :
          ~(ArtifactName(path) /\ exists(fs, path))]_vars

\* the files job t has written under its generated name
OwnFiles(t) ==
    IF job[t].backup_path = <<>> THEN {}
    ELSE {f \in fs : f.name \in {RawOf(t), GzOf(t)}}

\* C35: a file of a job that List reports is one the job has verified: the dump
\* in progress and the files of a job that failed before or in verification
\* are not listed.
C35_ListedAreVerified ==
    \A t \in Threads : \A f \in OwnFiles(t) \cap Listed(fs, <<>>) :
        f.name \in job[t].verified

\* the job's own cleaning has removed the artifact the job created
EvictedOwn(t) == \E f \in job[t].evicted : f.name = job[t].backup_path

\* C36: a job that returns success has its artifact on disk, and the job's
\* cleaning never evicts the artifact the job has just created.
C36_SuccessKeepsArtifact ==
    \A t \in Threads :
        /\ ~EvictedOwn(t)
        /\ (pc[t] = "jobdone" /\ job[t].success) => exists(fs, job[t].backup_path)

\* C37: a Restore, whatever its outcome, leaves the artifact directory as it
\* found it: what List returns is the same before and after, no temporary
\* file stays behind and no artifact is removed or altered.
C37_RestoreLeavesDirectory ==
    sto.name = "restore" => Listed(fs, <<>>) = Listed(sto.before, <<>>)

\* a request to the orchestrator's scheduler is served in this step
SchedulerRequest ==
    /\ sch'.requests < sch.requests
    /\ sch'.last.op \in {"start", "stop", "configure"}

\* C38: a job is run by the loop of the scheduler that owns it, one tick at a
\* time, and starting, stopping or configuring the orchestrator's scheduler
\* leaves the jobs of the web interface's scheduler as they were.
C38_InstancesKeepTheirJobs ==
    /\ [](sch.tick.active =>
             \A j \in sch.jobs : j.id = sch.tick.job => j.owner = sch.tick.by)
    /\ [][SchedulerRequest => OwnJobs(sch', "web") = OwnJobs(sch, "web")]_vars

\* C39: a scheduler has at most one live timing loop, whatever the sequence
\* of Start and Stop requests.
C39_OneLoopPerScheduler == \A i \in Instances : sch.loops[i] <= 1

\* a configure request without the enabled flag is served in this step
ConfiguredWithoutFlag ==
    /\ sch'.requests < sch.requests
    /\ sch'.last.op = "configure"
    /\ "enabled" \notin DOMAIN sch'.last.request

\* C40: a Configure whose request carries no enabled flag keeps the run
\* state: a running scheduler is running afterwards, a stopped one stopped.
C40_ConfigureKeepsRunState ==
    [][ConfiguredWithoutFlag =>
          sch'.scheduler["orch"].running = sch.scheduler["orch"].running]_vars

====
